---- MODULE Spec2Model ----
(***************************************************************************)
(* MailerSlave: the campaign send pipeline of the backend (the campaigns   *)
(* routes as request handlers that interleave at their store calls, and    *)
(* the background task _send_campaign_emails, one store or service call    *)
(* per step), the templates and contacts routes, template rendering and    *)
(* placeholder extraction on texts, and the command line program.          *)
(***************************************************************************)
EXTENDS Integers, Sequences, FiniteSets, TLC

\* ------------------------------------------------------------------ bounds
\* Longest contact_ids list of a campaign; contacts are numbered 1..MaxRefs.
MaxRefs == 3
\* Background runs that may be scheduled in one behaviour.
MaxRuns == 2

\* Concurrent request handlers (coroutines of the event loop).
Handlers == {"h1", "h2"}
\* Ids the store hands out for campaigns.
CampaignIds == {1}
ContactIds == 1..MaxRefs
Runs == 1..MaxRuns

\* ------------------------------------------------------------ CampaignStatus
DRAFT == "draft"
SCHEDULED == "scheduled"
IN_PROGRESS == "in_progress"
COMPLETED == "completed"
FAILED == "failed"
PAUSED == "paused"
CampaignStatus == {DRAFT, SCHEDULED, IN_PROGRESS, COMPLETED, FAILED, PAUSED}

\* EmailStatus values the senders write.
EMAIL_SENT == "sent"
EMAIL_FAILED == "failed"

\* A timestamp field that was never set (None).
NoTime == 0

VARIABLES
    campaigns,      \* db.campaigns: campaign id -> document
    created,        \* campaign ids insert_one has handed out
    contacts,       \* db.contacts: contact id -> document
    unique_email,   \* whether db.contacts has its unique index on email
    template,       \* db.templates: the one template campaigns refer to
    email_logs,     \* db.email_logs: the rows in insertion order
    req,            \* each handler's position in the request it serves
    response,       \* the HTTP response the latest step sent, if it sent one
    run,            \* the background tasks added by send_campaign
    next_run,       \* how many background tasks were added
    now,            \* datetime.utcnow(), as a logical clock
    calls,          \* the calls the latest pass of a task's loop made
    cli,            \* the command line program: its position and its locals
    rendering       \* a template text, a mapping and its successive renderings

vars == <<campaigns, created, contacts, unique_email, template, email_logs, req,
          response, run, next_run, now, calls, cli, rendering>>

\* ------------------------------------------------------------------ inputs
\* contact_ids lists a request may carry: <<>>, <<1>>, <<1,2>>, ...
ContactLists == {[i \in 1..n |-> i] : n \in 0..MaxRefs}

\* CampaignUpdate after model_dump(exclude_unset=True): `fields` are the keys
\* present; a key that is absent keeps its default and is never read.
UpdateData ==
    {[fields |-> {"status"}, status |-> s, contact_ids |-> <<>>] : s \in CampaignStatus}
    \cup {[fields |-> {"contact_ids"}, status |-> DRAFT, contact_ids |-> l] : l \in ContactLists}
    \cup {[fields |-> {}, status |-> DRAFT, contact_ids |-> <<>>]}

\* Campaigns of at most one recipient.
ShortLists == {l \in ContactLists : Len(l) <= 1}

\* The updates that set only the status field.
StatusUpdates == {d \in UpdateData : d.fields = {"status"}}

NoData == [fields |-> {}, status |-> DRAFT, contact_ids |-> <<>>]

IdleReq == [pc |-> "idle", campaign_id |-> 1, data |-> NoData, dry_run |-> FALSE]

NoRun == [pc |-> "unused", campaign_id |-> 1, dry_run |-> FALSE, contact_ids |-> <<>>,
          use_llm |-> FALSE, subject |-> "", content |-> <<>>, tested |-> FALSE, i |-> 1,
          sent_count |-> 0, failed_count |-> 0]

NoResponse == [code |-> 0, detail |-> ""]

\* Outcomes of the SMTP session of one send_email call: it goes through, or
\* the named step of it raises.
SMTP_OK == "ok"
SmtpFailures == {"SMTP", "starttls", "login", "send_message"}
SmtpOutcomes == {SMTP_OK} \cup SmtpFailures

\* The truncation length of DryRunEmailSender: body[:500].
DryRunBodyLimit == 500
\* A body is represented by its length in characters: one that fits the
\* truncation length and one that is a character longer.
Bodies == {DryRunBodyLimit, DryRunBodyLimit + 1}

NoError == ""

\* A loop pass that has called nothing: `ops` are the calls of the pass in
\* order, `generated` what generate_email did ("no" when it was not called),
\* `send` the arguments and the result of the send_email call.
NoSend == [dry_run |-> FALSE, contact_id |-> 0, subject |-> "", body |-> 0, smtp |-> SMTP_OK,
           insert_ok |-> FALSE, network |-> FALSE, raised |-> FALSE,
           success |-> FALSE, error |-> NoError]
NoCalls == [ops |-> <<>>, generated |-> "no", content |-> <<>>, send |-> NoSend]

\* --limit of the command line: not given (None), or an integer.
NoLimit == [given |-> FALSE, value |-> 0]

\* The command line program was not started.
NoCli == [pc |-> "off", dry_run |-> FALSE, use_llm |-> FALSE, limit |-> NoLimit,
          rows |-> <<>>, tested |-> FALSE, recipients |-> <<>>, i |-> 1,
          successful |-> 0, failed |-> 0, exit_code |-> 0]

\* Nothing is being rendered.
NoRendering == [template_content |-> <<>>, variables |-> <<>>, results |-> <<>>]

\* --------------------------------------------------------------- the store
\* find_one by _id: whether a document matches.
Found(id) == id \in DOMAIN campaigns

\* update_one with {"$set": patch}: the fields of patch overwrite the
\* document's; no document matching is not an error and changes nothing.
Set(doc, patch) ==
    [f \in DOMAIN doc |-> IF f \in DOMAIN patch THEN patch[f] ELSE doc[f]]

UpdateOne(id, patch) ==
    IF Found(id)
    THEN [campaigns EXCEPT ![id] = Set(campaigns[id], patch)]
    ELSE campaigns

\* delete_one by _id.
DeleteOne(id) == [c \in DOMAIN campaigns \ {id} |-> campaigns[c]]

\* What a handler sends back; `detail` carries the status a rejection reports.
Respond(h, code, detail) ==
    /\ response' = [code |-> code, detail |-> detail]
    /\ calls' = NoCalls

\* A step that sends no response.
Silent == response' = NoResponse /\ calls' = NoCalls

Return(h) == req' = [req EXCEPT ![h] = IdleReq]

\* The store is taken to answer the handlers' calls; its failures are
\* modelled where the claims speak of them, in the background task.

\* ------------------------------------------------------------ create_campaign
\* The document create_campaign inserts.
NewCampaign(ids) ==
    [status |-> DRAFT,
     contact_ids |-> ids,
     total_emails |-> Len(ids),
     sent_count |-> 0,
     failed_count |-> 0,
     started_at |-> NoTime,
     completed_at |-> NoTime]

Range(s) == {s[k] : k \in DOMAIN s}

\* POST /: the template and every contact are looked up, then the document
\* is inserted under a fresh id.
create_campaign(ids) ==
    /\ template.present
    /\ Range(ids) \subseteq DOMAIN contacts
    /\ \E id \in CampaignIds \ created :
         /\ campaigns' = [c \in DOMAIN campaigns \cup {id} |->
                            IF c = id THEN NewCampaign(ids) ELSE campaigns[c]]
         /\ created' = created \cup {id}
    /\ Silent
    /\ UNCHANGED <<contacts, unique_email, template, email_logs, req, run, next_run, now, cli,
                   rendering>>

\* -------------------------------------------------------------- send_campaign
\* send_campaign letting a scheduled campaign through as well.
SendAllowed_AlsoScheduled(status) == status \in {DRAFT, PAUSED, SCHEDULED}

\* The status check of send_campaign.
SendAllowed(status) == status \in {DRAFT, PAUSED}

\* The $set send_campaign writes (updated_at is not modelled).
SendPatch(t) == [status |-> IN_PROGRESS, started_at |-> t]

\* Sends that passed the check and have not yet added their task.
InFlightSends ==
    Cardinality({h \in Handlers : req[h].pc \in {"send_update", "send_add_task"}})

\* POST /{id}/send up to its first store call: find_one, then the 404 and
\* status checks on the document read.
send_campaign_find(h, id, dry) ==
    /\ req[h].pc = "idle"
    /\ IF ~Found(id)
       THEN /\ Respond(h, 404, "Campaign not found")
            /\ UNCHANGED req
       ELSE IF ~SendAllowed(campaigns[id].status)
       THEN /\ Respond(h, 400, campaigns[id].status)
            /\ UNCHANGED req
       ELSE /\ next_run + InFlightSends < MaxRuns
            /\ req' = [req EXCEPT ![h] = [pc |-> "send_update", campaign_id |-> id,
                                          data |-> NoData, dry_run |-> dry]]
            /\ Silent
    /\ UNCHANGED <<campaigns, created, contacts, unique_email, template, email_logs, run,
                   next_run, now, cli, rendering>>

\* The update_one of send_campaign: status in_progress, started_at.
send_campaign_update(h) ==
    /\ req[h].pc = "send_update"
    /\ campaigns' = UpdateOne(req[h].campaign_id, SendPatch(now))
    /\ now' = now + 1
    /\ req' = [req EXCEPT ![h].pc = "send_add_task"]
    /\ Silent
    /\ UNCHANGED <<created, contacts, unique_email, template, email_logs, run, next_run, cli,
                   rendering>>

\* background_tasks.add_task(_send_campaign_emails, ...) and the response.
send_campaign_add_task(h) ==
    /\ req[h].pc = "send_add_task"
    /\ next_run' = next_run + 1
    /\ run' = [run EXCEPT ![next_run + 1] =
                 [NoRun EXCEPT !.pc = "scheduled",
                               !.campaign_id = req[h].campaign_id,
                               !.dry_run = req[h].dry_run]]
    /\ Respond(h, 200, "Campaign started")
    /\ Return(h)
    /\ UNCHANGED <<campaigns, created, contacts, unique_email, template, email_logs, now, cli,
                   rendering>>

\* ------------------------------------------------------------ update_campaign
\* update_campaign refusing failed campaigns too.
UpdateBlocked_AlsoFailed(status) == status \in {IN_PROGRESS, COMPLETED, FAILED}

\* The statuses in which update_campaign refuses to write.
UpdateBlocked(status) == status \in {IN_PROGRESS, COMPLETED}

\* An update that writes the keys of the request alone.
UpdatePatch_KeepsTotal(d) ==
    [f \in d.fields |->
        CASE f = "status" -> d.status
          [] f = "contact_ids" -> d.contact_ids]

\* update_data as written by update_one: the keys the request set, plus
\* total_emails when contact_ids is among them.
UpdatePatch(d) ==
    [f \in d.fields \cup (IF "contact_ids" \in d.fields THEN {"total_emails"} ELSE {}) |->
        CASE f = "status" -> d.status
          [] f = "contact_ids" -> d.contact_ids
          [] f = "total_emails" -> Len(d.contact_ids)]

\* PUT /{id} up to its first store call: find_one and the checks on it.
update_campaign_find(h, id, d) ==
    /\ req[h].pc = "idle"
    /\ IF ~Found(id)
       THEN /\ Respond(h, 404, "Campaign not found")
            /\ UNCHANGED req
       ELSE IF UpdateBlocked(campaigns[id].status)
       THEN /\ Respond(h, 400, "Cannot update campaign")
            /\ UNCHANGED req
       ELSE /\ req' = [req EXCEPT ![h] = [pc |-> "update_update", campaign_id |-> id,
                                          data |-> d, dry_run |-> FALSE]]
            /\ Silent
    /\ UNCHANGED <<campaigns, created, contacts, unique_email, template, email_logs, run,
                   next_run, now, cli, rendering>>

\* The update_one of update_campaign and the find_one that builds the
\* response (which fails on a document deleted meanwhile).
update_campaign_update(h) ==
    /\ req[h].pc = "update_update"
    /\ campaigns' = UpdateOne(req[h].campaign_id, UpdatePatch(req[h].data))
    /\ IF Found(req[h].campaign_id)
       THEN Respond(h, 200, "updated")
       ELSE Respond(h, 500, "TypeError")
    /\ Return(h)
    /\ UNCHANGED <<created, contacts, unique_email, template, email_logs, run, next_run, now,
                   cli, rendering>>

\* ------------------------------------------------------------ delete_campaign
\* The status in which delete_campaign refuses to delete.
DeleteBlocked(status) == status = IN_PROGRESS

\* DELETE /{id} up to its first store call.
delete_campaign_find(h, id) ==
    /\ req[h].pc = "idle"
    /\ IF ~Found(id)
       THEN /\ Respond(h, 404, "Campaign not found")
            /\ UNCHANGED req
       ELSE IF DeleteBlocked(campaigns[id].status)
       THEN /\ Respond(h, 400, "Cannot delete campaign")
            /\ UNCHANGED req
       ELSE /\ req' = [req EXCEPT ![h] = [pc |-> "delete_delete", campaign_id |-> id,
                                          data |-> NoData, dry_run |-> FALSE]]
            /\ Silent
    /\ UNCHANGED <<campaigns, created, contacts, unique_email, template, email_logs, run,
                   next_run, now, cli, rendering>>

\* The delete_one of delete_campaign.
delete_campaign_delete(h) ==
    /\ req[h].pc = "delete_delete"
    /\ campaigns' = DeleteOne(req[h].campaign_id)
    /\ Respond(h, 204, "")
    /\ Return(h)
    /\ UNCHANGED <<created, contacts, unique_email, template, email_logs, run, next_run, now,
                   cli, rendering>>

\* ------------------------------------------------- contacts and templates
\* DELETE /contacts/{id}: one delete_one.
delete_contact(c) ==
    /\ c \in DOMAIN contacts
    /\ contacts' = [d \in DOMAIN contacts \ {c} |-> contacts[d]]
    /\ Silent
    /\ UNCHANGED <<campaigns, created, unique_email, template, email_logs, req, run, next_run,
                   now, cli, rendering>>

\* ------------------------------------------------------------ contacts routes
\* Documents db.contacts holds at most in one behaviour of the contacts API.
MaxContacts == 3
Emails == {"x@m", "y@m"}

\* ContactUpdate after model_dump(exclude_unset=True), as far as the email
\* goes: the key is present with an address, or absent.
ContactUpdate ==
    {[fields |-> {"email"}, email |-> e] : e \in Emails}
    \cup {[fields |-> {}, email |-> ""]}

\* BulkContactImport.contacts, by the addresses of its entries.
Batches == UNION {[1..n -> Emails] : n \in 0..2}

\* find_one({"email": email}): whether a document matches.
FindEmail(email) == \E c \in DOMAIN contacts : contacts[c].email = email

\* Whether the unique index refuses a write that gives document c the
\* address email (DuplicateKeyError); c = 0 for a document being inserted.
DuplicateKey(c, email) ==
    /\ unique_email
    /\ \E d \in DOMAIN contacts \ {c} : contacts[d].email = email

\* insert_one: the document under an id no document has had (the contacts
\* API below deletes none).
InsertOne(email) ==
    LET id == Cardinality(DOMAIN contacts) + 1
    IN  [c \in DOMAIN contacts \cup {id} |->
            IF c = id THEN [email |-> email] ELSE contacts[c]]

\* POST /contacts, up to its find_one by email: 409 when a contact has it.
create_contact_find(h, email) ==
    /\ req[h].pc = "idle"
    /\ IF FindEmail(email)
       THEN /\ Respond(h, 409, "")
            /\ UNCHANGED req
       ELSE /\ req' = [req EXCEPT ![h] = [pc |-> "create_contact_insert", email |-> email]]
            /\ Silent
    /\ UNCHANGED <<campaigns, created, contacts, unique_email, template, email_logs, run,
                   next_run, now, cli, rendering>>

\* POST /contacts, its insert_one; an error of the store is not caught.
create_contact_insert(h) ==
    /\ req[h].pc = "create_contact_insert"
    /\ Cardinality(DOMAIN contacts) < MaxContacts
    /\ IF DuplicateKey(0, req[h].email)
       THEN /\ Respond(h, 500, "")
            /\ UNCHANGED contacts
       ELSE /\ contacts' = InsertOne(req[h].email)
            /\ Respond(h, 201, "")
    /\ Return(h)
    /\ UNCHANGED <<campaigns, created, unique_email, template, email_logs, run, next_run, now,
                   cli, rendering>>

\* PUT /contacts/{id}, up to its find_one by id: 404 when no contact has the
\* id; the email is checked next when the request carries one that differs
\* from the stored one.
update_contact_find(h, id, u) ==
    /\ req[h].pc = "idle"
    /\ IF id \notin DOMAIN contacts
       THEN /\ Respond(h, 404, "")
            /\ UNCHANGED req
       ELSE /\ req' = [req EXCEPT ![h] =
                         [pc |-> IF "email" \in u.fields /\ u.email # contacts[id].email
                                 THEN "update_contact_check"
                                 ELSE "update_contact_update",
                          contact_id |-> id, data |-> u]]
            /\ Silent
    /\ UNCHANGED <<campaigns, created, contacts, unique_email, template, email_logs, run,
                   next_run, now, cli, rendering>>

\* PUT /contacts/{id}, its find_one by the new email: 409 when a contact has it.
update_contact_check(h) ==
    /\ req[h].pc = "update_contact_check"
    /\ IF FindEmail(req[h].data.email)
       THEN /\ Respond(h, 409, "")
            /\ Return(h)
       ELSE /\ req' = [req EXCEPT ![h].pc = "update_contact_update"]
            /\ Silent
    /\ UNCHANGED <<campaigns, created, contacts, unique_email, template, email_logs, run,
                   next_run, now, cli, rendering>>

\* PUT /contacts/{id}, its update_one with the keys of the request; an error
\* of the store is not caught.
update_contact_update(h) ==
    /\ req[h].pc = "update_contact_update"
    /\ LET id == req[h].contact_id
           u == req[h].data
       IN  IF "email" \in u.fields /\ DuplicateKey(id, u.email)
           THEN /\ Respond(h, 500, "")
                /\ UNCHANGED contacts
           ELSE /\ contacts' = IF "email" \in u.fields /\ id \in DOMAIN contacts
                               THEN [contacts EXCEPT ![id].email = u.email]
                               ELSE contacts
                /\ Respond(h, 200, "")
    /\ Return(h)
    /\ UNCHANGED <<campaigns, created, unique_email, template, email_logs, run, next_run, now,
                   cli, rendering>>

\* The loop of bulk_import_contacts moving on to entry i: the next find_one,
\* or the response after the last entry.
BulkNext(h, batch, i) ==
    IF i > Len(batch)
    THEN /\ Respond(h, 201, "")
         /\ Return(h)
    ELSE /\ req' = [req EXCEPT ![h] = [pc |-> "bulk_find", batch |-> batch, i |-> i]]
         /\ Silent

\* POST /contacts/bulk: the request arrives.
bulk_import_contacts(h, batch) ==
    /\ req[h].pc = "idle"
    /\ BulkNext(h, batch, 1)
    /\ UNCHANGED <<campaigns, created, contacts, unique_email, template, email_logs, run,
                   next_run, now, cli, rendering>>

\* One entry's find_one by email: the entry is skipped when a contact has it.
bulk_import_find(h) ==
    /\ req[h].pc = "bulk_find"
    /\ IF FindEmail(req[h].batch[req[h].i])
       THEN BulkNext(h, req[h].batch, req[h].i + 1)
       ELSE /\ req' = [req EXCEPT ![h].pc = "bulk_insert"]
            /\ Silent
    /\ UNCHANGED <<campaigns, created, contacts, unique_email, template, email_logs, run,
                   next_run, now, cli, rendering>>

\* One entry's insert_one; an error of the store is caught and reported in
\* the response, and the loop goes on.
bulk_import_insert(h) ==
    /\ req[h].pc = "bulk_insert"
    /\ Cardinality(DOMAIN contacts) < MaxContacts
    /\ contacts' = IF DuplicateKey(0, req[h].batch[req[h].i])
                   THEN contacts
                   ELSE InsertOne(req[h].batch[req[h].i])
    /\ BulkNext(h, req[h].batch, req[h].i + 1)
    /\ UNCHANGED <<campaigns, created, unique_email, template, email_logs, run, next_run, now,
                   cli, rendering>>

\* DELETE /templates/{id}: one delete_one.
delete_template ==
    /\ template.present
    /\ template' = [template EXCEPT !.present = FALSE]
    /\ Silent
    /\ UNCHANGED <<campaigns, created, contacts, unique_email, email_logs, req, run, next_run,
                   now, cli, rendering>>

\* ------------------------------------------------------------ template texts
\* A text is a sequence of characters, each a string of length one.
\* [a-zA-Z_] and [a-zA-Z0-9_] of the placeholder pattern, on the characters
\* the texts here are written in.
Lower == {"a", "b", "c", "d", "e", "f", "g", "h", "i", "j", "k", "l", "m", "n",
          "o", "p", "q", "r", "s", "t", "u", "v", "w", "x", "y", "z"}
Upper == {"A", "B", "C", "D", "E", "F", "G", "H", "I", "J", "K", "L", "M", "N",
          "O", "P", "Q", "R", "S", "T", "U", "V", "W", "X", "Y", "Z"}
Digits == {"0", "1", "2", "3", "4", "5", "6", "7", "8", "9"}
IdentStart == Lower \cup Upper \cup {"_"}
IdentChar == IdentStart \cup Digits

\* The index after the longest run of identifier characters from index i.
RECURSIVE IdentEnd(_, _)
IdentEnd(T, i) ==
    IF i <= Len(T) /\ T[i] \in IdentChar THEN IdentEnd(T, i + 1) ELSE i

\* re.findall of \$\{?([a-zA-Z_][a-zA-Z0-9_]*)\}? from index i: the names
\* captured by the matches, found left to right without overlap.
RECURSIVE FindAll(_, _)
FindAll(T, i) ==
    IF i > Len(T) THEN {}
    ELSE IF T[i] # "$" THEN FindAll(T, i + 1)
    ELSE LET s == IF i + 1 <= Len(T) /\ T[i + 1] = "{" THEN i + 2 ELSE i + 1
         IN  IF s <= Len(T) /\ T[s] \in IdentStart
             THEN LET e == IdentEnd(T, s + 1)
                      after == IF e <= Len(T) /\ T[e] = "}" THEN e + 1 ELSE e
                  IN  {SubSeq(T, s, e - 1)} \cup FindAll(T, after)
             ELSE FindAll(T, i + 1)

\* TemplateService.extract_placeholders: list(set(findall)); the order of the
\* list is left open by set(), so the list is kept as the set of its names.
extract_placeholders(template_content) == FindAll(template_content, 1)

\* string.Template(T).safe_substitute(V) from index i: "$$" gives "$"; "$name"
\* and "${name}" give V[name] when name is a key of V and stay as they are
\* when it is not; any other "$" stays.
RECURSIVE safe_substitute(_, _, _)
safe_substitute(T, V, i) ==
    IF i > Len(T) THEN <<>>
    ELSE IF T[i] # "$" THEN <<T[i]>> \o safe_substitute(T, V, i + 1)
    ELSE IF i + 1 <= Len(T) /\ T[i + 1] = "$"
         THEN <<"$">> \o safe_substitute(T, V, i + 2)
    ELSE IF i + 1 <= Len(T) /\ T[i + 1] \in IdentStart
         THEN LET e == IdentEnd(T, i + 2)
                  name == SubSeq(T, i + 1, e - 1)
              IN  (IF name \in DOMAIN V THEN V[name] ELSE SubSeq(T, i, e - 1))
                  \o safe_substitute(T, V, e)
    ELSE IF /\ i + 2 <= Len(T) /\ T[i + 1] = "{" /\ T[i + 2] \in IdentStart
            /\ IdentEnd(T, i + 3) <= Len(T) /\ T[IdentEnd(T, i + 3)] = "}"
         THEN LET e == IdentEnd(T, i + 3)
                  name == SubSeq(T, i + 2, e - 1)
              IN  (IF name \in DOMAIN V THEN V[name] ELSE SubSeq(T, i, e))
                  \o safe_substitute(T, V, e + 1)
    ELSE <<"$">> \o safe_substitute(T, V, i + 1)

\* A rendering that fills in no placeholder.
render_template_FillsNothing(template_content, variables) ==
    safe_substitute(template_content, <<>>, 1)

\* TemplateService.render_template and TemplateHandler.render_template:
\* safe_substitute raises nothing on a text and a mapping of texts, so the
\* except branch that raises ValueError is never taken.
render_template(template_content, variables) ==
    safe_substitute(template_content, variables, 1)

\* Longest template text that is enumerated, and the times it is rendered.
MaxLen == 4
MaxRenders == 2
\* The characters enumerated texts are written in.
TextChars == {"$", "{", "}", "a", "b"}
\* "Hi $first_name, from $company" and {first_name: "Ana"}.
GreetingText ==
    <<"H", "i", " ", "$", "f", "i", "r", "s", "t", "_", "n", "a", "m", "e", ",", " ",
      "f", "r", "o", "m", " ", "$", "c", "o", "m", "p", "a", "n", "y">>
GreetingVars == (<<"f", "i", "r", "s", "t", "_", "n", "a", "m", "e">> :> <<"A", "n", "a">>)
Texts == UNION {[1..n -> TextChars] : n \in 0..MaxLen}
\* Mappings of some of the names a, b to a text.
Mappings ==
    UNION {[K -> {<<"X">>, <<"Y", "Z">>}] : K \in SUBSET {<<"a">>, <<"b">>}}

\* The text of a rendering is rendered: first the template, then the result
\* of the rendering before, each time with the same mapping.
render_step ==
    /\ Len(rendering.results) < MaxRenders
    /\ LET text == IF rendering.results = <<>>
                   THEN rendering.template_content
                   ELSE rendering.results[Len(rendering.results)]
       IN  rendering' = [rendering EXCEPT
               !.results = Append(@, render_template(text, rendering.variables))]
    /\ UNCHANGED <<campaigns, created, contacts, unique_email, template, email_logs, req,
                   response, run, next_run, now, calls, cli>>

\* Contents a template request may carry: "Hi $a", "${a} $b", "Hi".
Contents == {<<"H", "i", " ", "$", "a">>,
             <<"$", "{", "a", "}", " ", "$", "b">>,
             <<"H", "i">>}
\* Placeholder lists a template request may carry.
PlaceholderLists == SUBSET {<<"a">>, <<"b">>}
\* template["subject"] of the template the store starts with, and another.
SUBJECT == "subject"
Subjects == {SUBJECT, "news"}

\* TemplateCreate: every field is set, placeholders by its default if not by
\* the caller.
TemplateCreate ==
    [subject : Subjects, content : Contents, placeholders : PlaceholderLists,
     use_llm : BOOLEAN]

\* TemplateUpdate after model_dump(exclude_unset=True): `fields` are the keys
\* present; a key that is absent is never read and is written here as the
\* first TemplateCreate value.
NoTemplateData ==
    [subject |-> SUBJECT, content |-> <<"H", "i">>, placeholders |-> {}, use_llm |-> FALSE]
TemplateUpdate ==
    {[fields |-> F, data |-> [k \in DOMAIN d |-> IF k \in F THEN d[k] ELSE NoTemplateData[k]]] :
        F \in SUBSET {"subject", "content", "placeholders", "use_llm"}, d \in TemplateCreate}

\* No template was inserted yet.
NoTemplate ==
    [id |-> 0, present |-> FALSE, subject |-> SUBJECT, content |-> <<"H", "i">>,
     placeholders |-> {}, use_llm |-> FALSE]

\* The $set of update_template on the stored document: the keys present,
\* with placeholders extracted again when content is one of them.
TemplatePatch(cur, u) ==
    [k \in DOMAIN u.data |->
        IF k = "placeholders" /\ "content" \in u.fields
        THEN extract_placeholders(u.data.content)
        ELSE IF k \in u.fields THEN u.data[k] ELSE cur[k]]

\* POST /templates: the placeholders are extracted from the content and
\* replace the caller's, then the document is inserted.
create_template(t) ==
    /\ template.id = 0
    /\ template' = [id |-> 1, present |-> TRUE, subject |-> t.subject,
                    content |-> t.content,
                    placeholders |-> extract_placeholders(t.content),
                    use_llm |-> t.use_llm]
    /\ Respond("h1", 201, "")
    /\ UNCHANGED <<campaigns, created, contacts, unique_email, email_logs, req, run, next_run,
                   now, cli, rendering>>

\* PUT /templates/{id}: find_one, then update_one with the keys of the
\* request; the two store calls are one step, a template deleted between
\* them being matched by neither.
update_template(u) ==
    /\ template.id # 0
    /\ IF template.present
       THEN /\ template' = Set(template, TemplatePatch(template, u))
            /\ Respond("h1", 200, "")
       ELSE /\ Respond("h1", 404, "")
            /\ UNCHANGED template
    /\ UNCHANGED <<campaigns, created, contacts, unique_email, email_logs, req, run, next_run,
                   now, cli, rendering>>

\* ------------------------------------------------------------ email senders
\* str(e) of the exception the SMTP session raised.
ErrorMsg(smtp) == smtp

\* The document _log_email inserts: sent_at only for status sent.
LogRow(campaign_id, contact_id, subject, body, status, error_message, t) ==
    [campaign_id |-> campaign_id,
     contact_id |-> contact_id,
     subject |-> subject,
     body |-> body,
     status |-> status,
     sent_at |-> IF status = EMAIL_SENT THEN t ELSE NoTime,
     error_message |-> error_message]

\* _log_email: insert_one inside try/except, so a failing insert is only
\* logged and leaves the collection as it was.
LogEmail(logs, row, insert_ok) == IF insert_ok THEN Append(logs, row) ELSE logs

\* A send_email that lets the exception of the SMTP session through.
AsyncSendEmail_Raises(logs, campaign_id, contact_id, subject, body, smtp, insert_ok, t) ==
    IF smtp = SMTP_OK
    THEN [network |-> TRUE, raised |-> FALSE, success |-> TRUE, error |-> NoError,
          logs |-> LogEmail(logs, LogRow(campaign_id, contact_id, subject, body,
                                         EMAIL_SENT,
                                         NoError, t), insert_ok)]
    ELSE [network |-> TRUE, raised |-> TRUE, success |-> FALSE, error |-> ErrorMsg(smtp),
          logs |-> logs]

\* AsyncEmailSender.send_email: what it returns, (success, error), and the
\* collection after it; `network` is whether an SMTP session was opened,
\* `raised` whether an exception leaves the call.
AsyncSendEmail(logs, campaign_id, contact_id, subject, body, smtp, insert_ok, t) ==
    IF smtp = SMTP_OK
    THEN [network |-> TRUE, raised |-> FALSE, success |-> TRUE, error |-> NoError,
          logs |-> LogEmail(logs, LogRow(campaign_id, contact_id, subject, body,
                                         EMAIL_SENT,
                                         NoError, t), insert_ok)]
    ELSE [network |-> TRUE, raised |-> FALSE, success |-> FALSE, error |-> ErrorMsg(smtp),
          logs |-> LogEmail(logs, LogRow(campaign_id, contact_id, subject, body,
                                         EMAIL_FAILED,
                                         ErrorMsg(smtp), t), insert_ok)]

\* body[:500] on the length of the body.
Truncate(body) == IF body > DryRunBodyLimit THEN DryRunBodyLimit ELSE body

\* DryRunEmailSender.send_email: nothing is sent, a sent row with the
\* truncated body is inserted.
DryRunSendEmail(logs, campaign_id, contact_id, subject, body, insert_ok, t) ==
    [network |-> FALSE, raised |-> FALSE, success |-> TRUE, error |-> NoError,
     logs |-> LogEmail(logs, LogRow(campaign_id, contact_id, subject, Truncate(body),
                                    EMAIL_SENT,
                                    NoError, t), insert_ok)]

\* The command line's EmailSender.send_email: True when the SMTP session
\* went through, False when a step of it raised; nothing is logged to a store.
EmailSenderSendEmail(smtp) ==
    [network |-> TRUE, raised |-> FALSE, success |-> smtp = SMTP_OK, error |-> NoError]

\* One call of the command line's EmailSender.send_email.
cli_send_email(body, smtp) ==
    LET sent == EmailSenderSendEmail(smtp)
    IN  /\ calls' = [ops |-> <<"EmailSender.send_email">>,
                     generated |-> "no",
                     content |-> <<>>,
                     send |-> [dry_run |-> FALSE, contact_id |-> 0, subject |-> SUBJECT,
                               body |-> body,
                               smtp |-> smtp, insert_ok |-> FALSE,
                               network |-> sent.network, raised |-> sent.raised,
                               success |-> sent.success, error |-> sent.error]]
        /\ response' = NoResponse
        /\ UNCHANGED <<campaigns, created, contacts, unique_email, template, email_logs, req,
                       run, next_run, now, cli, rendering>>

\* ------------------------------------------------------------ command line
\* Most rows of the CSV file.
MaxRows == 3
\* The email cell of a row: empty, or an address.
CsvFiles == UNION {[1..n -> {"", "r@m"}] : n \in 0..MaxRows}
\* --limit: not given, or 0, 1, ... up to one more than the file has rows.
Limits == {NoLimit} \cup {[given |-> TRUE, value |-> n] : n \in 0..(MaxRows + 1)}

\* CSVReader.read_emails: the rows whose email cell is not empty.
read_emails(rows) == SelectSeq(rows, LAMBDA email : email # "")

\* `if limit: recipients = recipients[:limit]`.
Limited(recipients, limit) ==
    IF limit.given /\ limit.value # 0
    THEN SubSeq(recipients, 1,
                IF limit.value < Len(recipients) THEN limit.value ELSE Len(recipients))
    ELSE recipients

\* EmailSender.test_connection: the SMTP session up to the login.
EmailSenderTestConnection(smtp) == smtp \notin {"SMTP", "starttls", "login"}

\* sys.exit(code).
Exit(code) == cli' = [cli EXCEPT !.pc = "exit", !.exit_code = code]

\* main up to the sender: the arguments are parsed, the inputs exist.
cli_main(dry_run, no_llm, limit, rows) ==
    /\ cli.pc = "off"
    /\ cli' = [NoCli EXCEPT !.pc = "sender", !.dry_run = dry_run, !.use_llm = ~no_llm,
                            !.limit = limit, !.rows = rows]
    /\ Silent
    /\ UNCHANGED <<campaigns, created, contacts, unique_email, template, email_logs, req,
                   run, next_run, now, rendering>>

\* main, the sender: DryRunEmailSender in a dry run; otherwise the
\* credentials are required, EmailSender is made and its connection tested.
cli_init_sender(credentials, smtp) ==
    /\ cli.pc = "sender"
    /\ IF cli.dry_run
       THEN cli' = [cli EXCEPT !.pc = "ollama"]
       ELSE IF ~credentials \/ ~EmailSenderTestConnection(smtp)
       THEN Exit(1)
       ELSE cli' = [cli EXCEPT !.pc = "ollama", !.tested = TRUE]
    /\ Silent
    /\ UNCHANGED <<campaigns, created, contacts, unique_email, template, email_logs, req,
                   run, next_run, now, rendering>>

\* main, the generator: made and tested unless --no-llm; then send_emails
\* reads the recipients and cuts them to the limit.
cli_init_ollama(ollama_ok) ==
    /\ cli.pc = "ollama"
    /\ IF cli.use_llm /\ ~ollama_ok
       THEN Exit(1)
       ELSE cli' = [cli EXCEPT !.pc = "loop",
                               !.recipients = Limited(read_emails(cli.rows), cli.limit),
                               !.i = 1, !.successful = 0, !.failed = 0]
    /\ Silent
    /\ UNCHANGED <<campaigns, created, contacts, unique_email, template, email_logs, req,
                   run, next_run, now, rendering>>

\* One pass of the loop of send_emails: the body is generated or rendered
\* and sent; a generation error is caught and counted as a failure.
cli_recipient(generate_ok, smtp) ==
    /\ cli.pc = "loop"
    /\ cli.i <= Len(cli.recipients)
    /\ IF cli.use_llm /\ ~generate_ok
       THEN /\ cli' = [cli EXCEPT !.failed = @ + 1, !.i = @ + 1]
            /\ calls' = [NoCalls EXCEPT !.ops = <<"generate_email">>,
                                        !.generated = "raised"]
       ELSE LET sent == IF cli.dry_run
                        THEN [network |-> FALSE, raised |-> FALSE, success |-> TRUE,
                              error |-> NoError]
                        ELSE EmailSenderSendEmail(smtp)
            IN  /\ cli' = IF sent.success
                          THEN [cli EXCEPT !.successful = @ + 1, !.i = @ + 1]
                          ELSE [cli EXCEPT !.failed = @ + 1, !.i = @ + 1]
                /\ calls' = [NoCalls EXCEPT
                       !.ops = <<IF cli.use_llm THEN "generate_email" ELSE "render_template",
                                 "send_email">>,
                       !.generated = IF cli.use_llm THEN "ok" ELSE "no",
                       !.send = [NoSend EXCEPT !.dry_run = cli.dry_run,
                                               !.subject = SUBJECT,
                                               !.smtp = IF cli.dry_run THEN SMTP_OK ELSE smtp,
                                               !.network = sent.network,
                                               !.success = sent.success]]
    /\ response' = NoResponse
    /\ UNCHANGED <<campaigns, created, contacts, unique_email, template, email_logs, req,
                   run, next_run, now, rendering>>

\* send_emails returns (successful, failed); main logs the summary and
\* exits with 1 when an email failed.
cli_summary ==
    /\ cli.pc = "loop"
    /\ cli.i > Len(cli.recipients)
    /\ Exit(IF cli.failed > 0 THEN 1 ELSE 0)
    /\ Silent
    /\ UNCHANGED <<campaigns, created, contacts, unique_email, template, email_logs, req,
                   run, next_run, now, rendering>>

\* ------------------------------------------------------ _send_campaign_emails
\* The task at a point where its loop variables are no longer read: only the
\* position and the arguments it was added with remain.
Leave(rn, pc) == [NoRun EXCEPT !.pc = pc, !.campaign_id = rn.campaign_id,
                               !.dry_run = rn.dry_run]

\* A missing contact ending the loop.
ContactMissing_Abort(rn) == Leave(rn, "except")

\* A missing contact skipped without being counted.
ContactMissing_NotCounted(rn) == [rn EXCEPT !.i = @ + 1]

\* `if not contact: failed_count += 1; continue`.
ContactMissing(rn) == [rn EXCEPT !.failed_count = @ + 1, !.i = @ + 1]

\* A per-recipient error passed on to the outer except handler.
RecipientError_Abort(rn) == Leave(rn, "except")

\* The per-recipient `except Exception: failed_count += 1`.
RecipientError(rn) == [rn EXCEPT !.failed_count = @ + 1, !.i = @ + 1]

\* `if success: sent_count += 1 else: failed_count += 1`.
CountResult(rn, success) ==
    IF success
    THEN [rn EXCEPT !.sent_count = @ + 1, !.i = @ + 1]
    ELSE [rn EXCEPT !.failed_count = @ + 1, !.i = @ + 1]

\* The $set of the final update (updated_at is not modelled).
FinalPatch(sent, failed, t) ==
    [status |-> COMPLETED, sent_count |-> sent, failed_count |-> failed,
     completed_at |-> t]

\* The $set of the outer except handler.
FailedPatch == [status |-> FAILED]

\* find_one on the campaign; a store error, or no document (subscripting
\* None raises), leads to the outer except handler.
run_find_campaign(r, store_ok) ==
    /\ run[r].pc = "scheduled"
    /\ IF store_ok /\ Found(run[r].campaign_id)
       THEN run' = [run EXCEPT ![r].pc = "find_template",
                               ![r].contact_ids = campaigns[run[r].campaign_id].contact_ids]
       ELSE run' = [run EXCEPT ![r] = Leave(run[r], "except")]
    /\ Silent
    /\ UNCHANGED <<campaigns, created, contacts, unique_email, template, email_logs, req,
                   next_run, now, cli, rendering>>

\* find_one on the template, the sender, and OllamaService() when the
\* template uses the LLM; the counters start at zero. The sender is
\* constructed and nothing is called on it: `tested` tells whether its
\* test_connection was called and returned True.
run_find_template(r, store_ok, ollama_ok) ==
    /\ run[r].pc = "find_template"
    /\ IF store_ok /\ template.present /\ (template.use_llm => ollama_ok)
       THEN run' = [run EXCEPT ![r].pc = "loop",
                               ![r].use_llm = template.use_llm,
                               ![r].subject = template.subject,
                               ![r].content = template.content,
                               ![r].tested = FALSE,
                               ![r].i = 1,
                               ![r].sent_count = 0,
                               ![r].failed_count = 0]
       ELSE run' = [run EXCEPT ![r] = Leave(run[r], "except")]
    /\ Silent
    /\ UNCHANGED <<campaigns, created, contacts, unique_email, template, email_logs, req,
                   next_run, now, cli, rendering>>

\* A generation error answered by falling back on render_template.
Personalize_Fallback(use_llm, generate_ok, body) ==
    IF ~use_llm
    THEN [ops |-> <<"render_template">>, generated |-> "no", raised |-> FALSE, body |-> body]
    ELSE IF generate_ok
    THEN [ops |-> <<"generate_email">>, generated |-> "returned", raised |-> FALSE,
          body |-> body]
    ELSE [ops |-> <<"generate_email", "render_template">>, generated |-> "raised",
          raised |-> FALSE, body |-> body]

\* The body of the email: from generate_email when the template uses the
\* LLM, otherwise from render_template; an error of generate_email leaves
\* the statement as an exception.
Personalize(use_llm, generate_ok, body) ==
    IF ~use_llm
    THEN [ops |-> <<"render_template">>, generated |-> "no", raised |-> FALSE, body |-> body]
    ELSE IF generate_ok
    THEN [ops |-> <<"generate_email">>, generated |-> "returned", raised |-> FALSE,
          body |-> body]
    ELSE [ops |-> <<"generate_email">>, generated |-> "raised", raised |-> TRUE,
          body |-> body]

\* The template every pass reading the store again.
RunTemplate_ReadAgain(rn) == [subject |-> template.subject, content |-> template.content]

\* The local `template` of the task: the document its find_one returned,
\* from which every pass takes template["content"] and template["subject"].
RunTemplate(rn) == [subject |-> rn.subject, content |-> rn.content]

\* The calls of a pass that sends: the contact is found, the body is made,
\* send_email is called.
SendingPass(rn, contact_id, made, smtp, insert_ok, sent) ==
    [ops |-> <<"find_one">> \o made.ops \o <<"send_email">>,
     generated |-> made.generated,
     content |-> RunTemplate(rn).content,
     send |-> [dry_run |-> rn.dry_run, contact_id |-> contact_id,
               subject |-> RunTemplate(rn).subject, body |-> made.body,
               smtp |-> IF rn.dry_run THEN SMTP_OK ELSE smtp,
               insert_ok |-> insert_ok, network |-> sent.network, raised |-> sent.raised,
               success |-> sent.success, error |-> sent.error]]

\* The references taken from the last to the first.
CurrentContact_Reversed(rn) == rn.contact_ids[Len(rn.contact_ids) - rn.i + 1]

\* `for contact_id in campaign["contact_ids"]`: the reference of the pass,
\* from the first to the last.
CurrentContact(rn) == rn.contact_ids[rn.i]

\* One pass of the for loop over campaign["contact_ids"]; body is the text
\* generate_email or render_template returns for the contact.
run_contact(r, store_ok, generate_ok, body, smtp, insert_ok) ==
    LET rn == run[r]
        contact_id == CurrentContact(rn)
        made == Personalize(rn.use_llm, generate_ok, body)
        sent == IF rn.dry_run
                THEN DryRunSendEmail(email_logs, rn.campaign_id, contact_id,
                                     RunTemplate(rn).subject, made.body,
                                     insert_ok, now)
                ELSE AsyncSendEmail(email_logs, rn.campaign_id, contact_id,
                                    RunTemplate(rn).subject, made.body,
                                    smtp, insert_ok, now)
    IN  /\ rn.pc = "loop"
        /\ rn.i <= Len(rn.contact_ids)
        /\ IF ~store_ok
           THEN /\ run' = [run EXCEPT ![r] = RecipientError(rn)]
                /\ calls' = [NoCalls EXCEPT !.ops = <<"find_one">>]
                /\ UNCHANGED email_logs
           ELSE IF contact_id \notin DOMAIN contacts
           THEN /\ run' = [run EXCEPT ![r] = ContactMissing(rn)]
                /\ calls' = [NoCalls EXCEPT !.ops = <<"find_one">>]
                /\ UNCHANGED email_logs
           ELSE IF made.raised
           THEN /\ run' = [run EXCEPT ![r] = RecipientError(rn)]
                /\ calls' = [NoCalls EXCEPT !.ops = <<"find_one">> \o made.ops,
                                            !.generated = made.generated,
                                            !.content = RunTemplate(rn).content]
                /\ UNCHANGED email_logs
           ELSE /\ run' = [run EXCEPT ![r] = IF sent.raised
                                             THEN RecipientError(rn)
                                             ELSE CountResult(rn, sent.success)]
                /\ calls' = SendingPass(rn, contact_id, made, smtp, insert_ok, sent)
                /\ email_logs' = sent.logs
        /\ response' = NoResponse
        /\ UNCHANGED <<campaigns, created, contacts, unique_email, template, req, next_run,
                       now, cli, rendering>>

\* The update_one after the loop: completed, the counters, completed_at.
run_final_update(r, store_ok) ==
    /\ run[r].pc = "loop"
    /\ run[r].i > Len(run[r].contact_ids)
    /\ IF store_ok
       THEN /\ campaigns' = UpdateOne(run[r].campaign_id,
                                      FinalPatch(run[r].sent_count, run[r].failed_count, now))
            /\ now' = now + 1
            /\ run' = [run EXCEPT ![r] = Leave(run[r], "done_completed")]
       ELSE /\ run' = [run EXCEPT ![r] = Leave(run[r], "except")]
            /\ UNCHANGED <<campaigns, now>>
    /\ Silent
    /\ UNCHANGED <<created, contacts, unique_email, template, email_logs, req, next_run, cli,
                   rendering>>

\* The outer except handler: its update_one is not itself guarded, so an
\* error of that call leaves the task with an exception.
run_mark_failed(r, store_ok) ==
    /\ run[r].pc = "except"
    /\ IF store_ok
       THEN /\ campaigns' = UpdateOne(run[r].campaign_id, FailedPatch)
            /\ run' = [run EXCEPT ![r] = Leave(run[r], "done_failed")]
       ELSE /\ run' = [run EXCEPT ![r] = Leave(run[r], "raised")]
            /\ UNCHANGED campaigns
    /\ Silent
    /\ UNCHANGED <<created, contacts, unique_email, template, email_logs, req, next_run, now,
                   cli, rendering>>

Init ==
    /\ campaigns = <<>>
    /\ created = {}
    /\ contacts = [c \in ContactIds |-> [email |-> c]]
    /\ unique_email = TRUE
    /\ template \in {[id |-> 1, present |-> TRUE, subject |-> SUBJECT,
                       content |-> <<"H", "i", " ", "$", "a">>,
                       placeholders |-> {<<"a">>}, use_llm |-> u] : u \in BOOLEAN}
    /\ email_logs = <<>>
    /\ req = [h \in Handlers |-> IdleReq]
    /\ response = NoResponse
    /\ run = [r \in Runs |-> NoRun]
    /\ next_run = 0
    /\ now = 1
    /\ calls = NoCalls
    /\ cli = NoCli
    /\ rendering = NoRendering

\* One client sending campaigns, contacts and the template being deleted
\* under it, and the background task with every outcome of its store and
\* generation calls; the SMTP session goes through or fails while
\* transmitting, and bodies fit the truncation length.
Client == {"h1"}
Transmission == {SMTP_OK, "send_message"}

Next ==
    \/ \E ids \in ContactLists : create_campaign(ids)
    \/ \E h \in Client, id \in CampaignIds, dry \in BOOLEAN :
         send_campaign_find(h, id, dry)
    \/ \E h \in Client : send_campaign_update(h)
    \/ \E h \in Client : send_campaign_add_task(h)
    \/ \E c \in ContactIds : delete_contact(c)
    \/ delete_template
    \/ \E r \in Runs, store_ok \in BOOLEAN : run_find_campaign(r, store_ok)
    \/ \E r \in Runs, store_ok \in BOOLEAN, ollama_ok \in BOOLEAN :
         run_find_template(r, store_ok, ollama_ok)
    \/ \E r \in Runs, store_ok \in BOOLEAN, generate_ok \in BOOLEAN,
          smtp \in Transmission, insert_ok \in BOOLEAN :
         run_contact(r, store_ok, generate_ok, DryRunBodyLimit, smtp, insert_ok)
    \/ \E r \in Runs, store_ok \in BOOLEAN : run_final_update(r, store_ok)
    \/ \E r \in Runs, store_ok \in BOOLEAN : run_mark_failed(r, store_ok)

Spec == Init /\ [][Next]_vars

\* The campaigns API under concurrent requests: two handlers interleaving at
\* their store calls, and background tasks whose store, generation and
\* transport calls all succeed; campaigns have at most one recipient and
\* updates set the status field.
ApiNext ==
    \/ \E ids \in ShortLists : create_campaign(ids)
    \/ \E h \in Handlers, id \in CampaignIds : send_campaign_find(h, id, FALSE)
    \/ \E h \in Handlers : send_campaign_update(h)
    \/ \E h \in Handlers : send_campaign_add_task(h)
    \/ \E h \in Handlers, id \in CampaignIds, d \in StatusUpdates :
         update_campaign_find(h, id, d)
    \/ \E h \in Handlers : update_campaign_update(h)
    \/ \E r \in Runs : run_find_campaign(r, TRUE)
    \/ \E r \in Runs : run_find_template(r, TRUE, TRUE)
    \/ \E r \in Runs : run_contact(r, TRUE, TRUE, DryRunBodyLimit, SMTP_OK, TRUE)
    \/ \E r \in Runs : run_final_update(r, TRUE)

ApiSpec == Init /\ [][ApiNext]_vars

\* The senders under every outcome of the SMTP session and of the log
\* insert, for bodies on both sides of the truncation length: one client,
\* campaigns of at most one recipient, real and dry runs, and calls of the
\* command line's sender.
TransportNext ==
    \/ \E ids \in ShortLists : create_campaign(ids)
    \/ \E h \in Client, id \in CampaignIds, dry \in BOOLEAN :
         send_campaign_find(h, id, dry)
    \/ \E h \in Client : send_campaign_update(h)
    \/ \E h \in Client : send_campaign_add_task(h)
    \/ \E r \in Runs : run_find_campaign(r, TRUE)
    \/ \E r \in Runs : run_find_template(r, TRUE, TRUE)
    \/ \E r \in Runs, body \in Bodies, smtp \in SmtpOutcomes, insert_ok \in BOOLEAN :
         run_contact(r, TRUE, TRUE, body, smtp, insert_ok)
    \/ \E r \in Runs : run_final_update(r, TRUE)
    \/ \E body \in Bodies, smtp \in SmtpOutcomes : cli_send_email(body, smtp)

TransportSpec == Init /\ [][TransportNext]_vars

\* Editing campaigns: campaigns of at most one recipient are created, and
\* two handlers serve updates of any shape (a status, a contact_ids list of
\* any length, nothing), interleaving at their store calls.
EditNext ==
    \/ \E ids \in ShortLists : create_campaign(ids)
    \/ \E h \in Handlers, id \in CampaignIds, d \in UpdateData :
         update_campaign_find(h, id, d)
    \/ \E h \in Handlers : update_campaign_update(h)

EditSpec == Init /\ [][EditNext]_vars

\* Deleting and sending a campaign concurrently: two handlers interleaving
\* at their store calls, and background tasks whose store, generation and
\* transport calls all succeed.
DeleteNext ==
    \/ \E ids \in ShortLists : create_campaign(ids)
    \/ \E h \in Handlers, id \in CampaignIds : send_campaign_find(h, id, FALSE)
    \/ \E h \in Handlers : send_campaign_update(h)
    \/ \E h \in Handlers : send_campaign_add_task(h)
    \/ \E h \in Handlers, id \in CampaignIds : delete_campaign_find(h, id)
    \/ \E h \in Handlers : delete_campaign_delete(h)
    \/ \E r \in Runs : run_find_campaign(r, TRUE)
    \/ \E r \in Runs : run_find_template(r, TRUE, TRUE)
    \/ \E r \in Runs : run_contact(r, TRUE, TRUE, DryRunBodyLimit, SMTP_OK, TRUE)
    \/ \E r \in Runs : run_final_update(r, TRUE)
    \/ \E r \in Runs : run_mark_failed(r, TRUE)

DeleteSpec == Init /\ [][DeleteNext]_vars

\* The templates API from an empty collection: a template is created,
\* updated with requests of any shape and deleted.
TemplateInit ==
    /\ campaigns = <<>>
    /\ created = {}
    /\ contacts = [c \in ContactIds |-> [email |-> c]]
    /\ unique_email = TRUE
    /\ template = NoTemplate
    /\ email_logs = <<>>
    /\ req = [h \in Handlers |-> IdleReq]
    /\ response = NoResponse
    /\ run = [r \in Runs |-> NoRun]
    /\ next_run = 0
    /\ now = 1
    /\ calls = NoCalls
    /\ cli = NoCli
    /\ rendering = NoRendering

TemplateNext ==
    \/ \E t \in TemplateCreate : create_template(t)
    \/ \E u \in TemplateUpdate : update_template(u)
    \/ delete_template

TemplateSpec == TemplateInit /\ [][TemplateNext]_vars

\* The contacts API from an empty collection: two handlers interleaving at
\* their store calls. create_indexes has run at startup: it built the unique
\* index on email, or its error was logged and the application went on
\* without the index.
ContactInit ==
    /\ campaigns = <<>>
    /\ created = {}
    /\ contacts = <<>>
    /\ unique_email \in BOOLEAN
    /\ template = NoTemplate
    /\ email_logs = <<>>
    /\ req = [h \in Handlers |-> IdleReq]
    /\ response = NoResponse
    /\ run = [r \in Runs |-> NoRun]
    /\ next_run = 0
    /\ now = 1
    /\ calls = NoCalls
    /\ cli = NoCli
    /\ rendering = NoRendering

ContactNext ==
    \/ \E h \in Handlers, email \in Emails : create_contact_find(h, email)
    \/ \E h \in Handlers : create_contact_insert(h)
    \/ \E h \in Handlers, id \in 1..MaxContacts, u \in ContactUpdate :
         update_contact_find(h, id, u)
    \/ \E h \in Handlers : update_contact_check(h)
    \/ \E h \in Handlers : update_contact_update(h)
    \/ \E h \in Handlers, batch \in Batches : bulk_import_contacts(h, batch)
    \/ \E h \in Handlers : bulk_import_find(h)
    \/ \E h \in Handlers : bulk_import_insert(h)

ContactSpec == ContactInit /\ [][ContactNext]_vars

\* Rendering as a function: every text up to MaxLen characters and the
\* greeting of the tests, with every mapping.
RenderInit ==
    /\ campaigns = <<>>
    /\ created = {}
    /\ contacts = <<>>
    /\ unique_email = TRUE
    /\ template = NoTemplate
    /\ email_logs = <<>>
    /\ req = [h \in Handlers |-> IdleReq]
    /\ response = NoResponse
    /\ run = [r \in Runs |-> NoRun]
    /\ next_run = 0
    /\ now = 1
    /\ calls = NoCalls
    /\ cli = NoCli
    /\ rendering \in
         {[template_content |-> T, variables |-> V, results |-> <<>>] :
             T \in Texts, V \in Mappings}
         \cup {[template_content |-> GreetingText, variables |-> GreetingVars,
                results |-> <<>>]}

RenderNext == render_step

RenderSpec == RenderInit /\ [][RenderNext]_vars

\* A template edited or deleted under running campaigns: one client
\* creating and sending campaigns, real and dry runs whose calls all
\* succeed, and template updates that carry a subject,
\* a content or both.
ContentUpdates ==
    {u \in TemplateUpdate : u.fields # {} /\ u.fields \subseteq {"subject", "content"}}

SnapshotNext ==
    \/ \E ids \in ContactLists : create_campaign(ids)
    \/ \E h \in Client, id \in CampaignIds, dry \in BOOLEAN :
         send_campaign_find(h, id, dry)
    \/ \E h \in Client : send_campaign_update(h)
    \/ \E h \in Client : send_campaign_add_task(h)
    \/ \E u \in ContentUpdates : update_template(u)
    \/ delete_template
    \/ \E r \in Runs : run_find_campaign(r, TRUE)
    \/ \E r \in Runs : run_find_template(r, TRUE, TRUE)
    \/ \E r \in Runs : run_contact(r, TRUE, TRUE, DryRunBodyLimit, SMTP_OK, TRUE)
    \/ \E r \in Runs : run_final_update(r, TRUE)
    \/ \E r \in Runs : run_mark_failed(r, TRUE)

SnapshotSpec == Init /\ [][SnapshotNext]_vars

\* The command line program with every choice of its arguments, of the CSV
\* file and of the outcomes of its connection tests, generations and sends.
CliNext ==
    \/ \E dry_run \in BOOLEAN, no_llm \in BOOLEAN, limit \in Limits, rows \in CsvFiles :
         cli_main(dry_run, no_llm, limit, rows)
    \/ \E credentials \in BOOLEAN, smtp \in SmtpOutcomes : cli_init_sender(credentials, smtp)
    \/ \E ollama_ok \in BOOLEAN : cli_init_ollama(ollama_ok)
    \/ \E generate_ok \in BOOLEAN, smtp \in SmtpOutcomes : cli_recipient(generate_ok, smtp)
    \/ cli_summary

CliSpec == Init /\ [][CliNext]_vars

\* The two bulk runs with every outcome of the SMTP session: the command
\* line program without generator and limit on a file of at most one row,
\* and the backend's task for campaigns of at most one recipient.
BulkRunNext ==
    \/ \E dry_run \in BOOLEAN, rows \in {f \in CsvFiles : Len(f) <= 1} :
         cli_main(dry_run, TRUE, NoLimit, rows)
    \/ \E credentials \in BOOLEAN, smtp \in SmtpOutcomes : cli_init_sender(credentials, smtp)
    \/ cli_init_ollama(TRUE)
    \/ \E smtp \in SmtpOutcomes : cli_recipient(TRUE, smtp)
    \/ cli_summary
    \/ \E ids \in ShortLists : create_campaign(ids)
    \/ \E h \in Client, id \in CampaignIds, dry \in BOOLEAN :
         send_campaign_find(h, id, dry)
    \/ \E h \in Client : send_campaign_update(h)
    \/ \E h \in Client : send_campaign_add_task(h)
    \/ \E r \in Runs : run_find_campaign(r, TRUE)
    \/ \E r \in Runs : run_find_template(r, TRUE, TRUE)
    \/ \E r \in Runs, smtp \in SmtpOutcomes :
         run_contact(r, TRUE, TRUE, DryRunBodyLimit, smtp, TRUE)
    \/ \E r \in Runs : run_final_update(r, TRUE)

BulkRunSpec == Init /\ [][BulkRunNext]_vars

\* A campaign edited while it is sent: one handler serves the sends,
\* another the updates, which carry a contact_ids list; the two interleave
\* at their store calls with each other and with the background tasks,
\* whose calls all succeed.
Editor == {"h2"}
ListUpdates == {d \in UpdateData : d.fields = {"contact_ids"}}

RaceNext ==
    \/ \E ids \in ShortLists : create_campaign(ids)
    \/ \E h \in Client, id \in CampaignIds : send_campaign_find(h, id, FALSE)
    \/ \E h \in Client : send_campaign_update(h)
    \/ \E h \in Client : send_campaign_add_task(h)
    \/ \E h \in Editor, id \in CampaignIds, d \in ListUpdates :
         update_campaign_find(h, id, d)
    \/ \E h \in Editor : update_campaign_update(h)
    \/ \E r \in Runs : run_find_campaign(r, TRUE)
    \/ \E r \in Runs : run_find_template(r, TRUE, TRUE)
    \/ \E r \in Runs : run_contact(r, TRUE, TRUE, DryRunBodyLimit, SMTP_OK, TRUE)
    \/ \E r \in Runs : run_final_update(r, TRUE)

RaceSpec == Init /\ [][RaceNext]_vars

\* ------------------------------------------------------------------ claims
\* Positions of a background task that was added and has not yet stopped.
Active == {"scheduled", "find_template", "loop", "except"}
\* Positions of a background task that returned or raised.
Stopped == {"done_completed", "done_failed", "raised"}

\* C1: every pass of the loop adds exactly one to exactly one of the two
\* counters, and the final update of a run stores status completed with
\* sent_count + failed_count equal to the number of contact references the
\* run iterated.
C1_CountersSumToReferences ==
    [][\A r \in Runs :
         /\ (run[r].pc = "loop" /\ run'[r].pc = "loop" /\ run'[r] # run[r]) =>
               /\ run'[r].i = run[r].i + 1
               /\ \/ /\ run'[r].sent_count = run[r].sent_count + 1
                     /\ run'[r].failed_count = run[r].failed_count
                  \/ /\ run'[r].failed_count = run[r].failed_count + 1
                     /\ run'[r].sent_count = run[r].sent_count
         /\ (run[r].pc = "loop" /\ run'[r].pc = "done_completed"
               /\ Found(run[r].campaign_id)) =>
               LET c == campaigns'[run[r].campaign_id]
               IN  /\ c.status = COMPLETED
                   /\ c.sent_count + c.failed_count = Len(run[r].contact_ids)
                   /\ run[r].i = Len(run[r].contact_ids) + 1
    ]_vars

\* A run over three references, the second contact deleted, has ended
\* completed with total_emails = 3, sent_count = 2, failed_count = 1.
C1_Witness ==
    \E id \in DOMAIN campaigns, r \in Runs :
        LET c == campaigns[id]
        IN  /\ run[r].pc = "done_completed"
            /\ c.status = COMPLETED
            /\ Len(c.contact_ids) = 3
            /\ c.contact_ids[2] \notin DOMAIN contacts
            /\ c.total_emails = 3
            /\ c.sent_count = 2
            /\ c.failed_count = 1

\* C2: at most one background run per campaign id is scheduled or executing
\* at any time.
C2_AtMostOneActiveRun ==
    \A id \in CampaignIds :
        Cardinality({r \in Runs : run[r].pc \in Active /\ run[r].campaign_id = id}) <= 1

\* C3: a send-request that finds the campaign in any status other than draft
\* or paused is answered 400 with that status, adds no background task, and
\* leaves the campaign and the handler as they were.
C3_SendRejected ==
    [][\A h \in Handlers, id \in CampaignIds :
         ((\E dry \in BOOLEAN : send_campaign_find(h, id, dry))
            /\ Found(id) /\ campaigns[id].status \notin {DRAFT, PAUSED}) =>
              /\ response' = [code |-> 400, detail |-> campaigns[id].status]
              /\ UNCHANGED <<campaigns, run, next_run, req>>
    ]_vars

\* A send-request on a scheduled campaign has just been rejected.
C3_Witness ==
    /\ response = [code |-> 400, detail |-> SCHEDULED]
    /\ \E id \in DOMAIN campaigns : campaigns[id].status = SCHEDULED

\* C4: the write of an accepted send-request leaves the campaign in_progress
\* with started_at set and sent_count = failed_count = 0.
C4_CountersResetOnSend ==
    [][\A h \in Handlers :
         (send_campaign_update(h) /\ Found(req[h].campaign_id)) =>
              LET c == campaigns'[req[h].campaign_id]
              IN  /\ c.status = IN_PROGRESS
                  /\ c.started_at # NoTime
                  /\ c.sent_count = 0
                  /\ c.failed_count = 0
    ]_vars

\* C5: once the background run of an accepted send has stopped, its campaign
\* has left in_progress for completed or failed.
C5_RunEndsTerminal ==
    \A r \in Runs :
        (run[r].pc \in Stopped /\ Found(run[r].campaign_id)) =>
            campaigns[run[r].campaign_id].status \in {COMPLETED, FAILED}

\* C6 as stated: a run that loaded its campaign and template ends completed,
\* never in the outer except handler.
C6_LoadedRunNeverFails ==
    [][\A r \in Runs : run[r].pc = "loop" => run'[r].pc \in {"loop", "done_completed"}]_vars

\* C6, amended: once the loop is entered, every pass moves on to the next
\* reference whatever happens to the recipient; the loop is left only after
\* the last reference, by the final update, which stores completed when the
\* store accepts it and otherwise leads to the outer except handler.
C6_LoopNeverAborts ==
    [][\A r \in Runs :
         run[r].pc = "loop" =>
            IF run[r].i <= Len(run[r].contact_ids)
            THEN run'[r] = run[r] \/ (run'[r].pc = "loop" /\ run'[r].i = run[r].i + 1)
            ELSE \/ run'[r] = run[r]
                 \/ run'[r].pc = "except"
                 \/ /\ run'[r].pc = "done_completed"
                    /\ Found(run[r].campaign_id) =>
                         campaigns'[run[r].campaign_id].status = COMPLETED
    ]_vars

\* A run of at least two references, every one of them failed, has ended
\* completed.
C6_Witness ==
    \E id \in DOMAIN campaigns, r \in Runs :
        /\ run[r].pc = "done_completed"
        /\ campaigns[id].status = COMPLETED
        /\ Len(campaigns[id].contact_ids) >= 2
        /\ campaigns[id].failed_count = Len(campaigns[id].contact_ids)
        /\ campaigns[id].sent_count = 0

\* C7: a run that has entered the outer except handler leaves it with the
\* campaign failed and sent_count, failed_count and completed_at as they were.
C7_OrchestrationErrorMarksFailed ==
    [][\A r \in Runs :
         (run[r].pc = "except" /\ run'[r].pc # "except" /\ Found(run[r].campaign_id)) =>
              LET c == campaigns[run[r].campaign_id]
                  d == campaigns'[run[r].campaign_id]
              IN  /\ d.status = FAILED
                  /\ d.sent_count = c.sent_count
                  /\ d.failed_count = c.failed_count
                  /\ d.completed_at = c.completed_at
    ]_vars

\* C8: no background run ends with an exception.
C8_NoExceptionEscapes == \A r \in Runs : run[r].pc # "raised"

\* The moves C9 allows: forward along draft, scheduled, in_progress,
\* {completed, failed}, and between in_progress and paused.
Forward(a, b) ==
    \/ a = b
    \/ a = DRAFT /\ b \in {SCHEDULED, IN_PROGRESS}
    \/ a = SCHEDULED /\ b = IN_PROGRESS
    \/ a = IN_PROGRESS /\ b \in {COMPLETED, FAILED, PAUSED}
    \/ a = PAUSED /\ b = IN_PROGRESS

\* C9: every change of a stored campaign's status is a forward move.
C9_StatusMovesForward ==
    [][\A id \in DOMAIN campaigns :
         id \in DOMAIN campaigns' => Forward(campaigns[id].status, campaigns'[id].status)]_vars

\* C10 as stated: an update that finds the campaign in a status other than
\* draft, scheduled or paused is rejected.
C10_UpdateOnlyDraftScheduledPaused ==
    [][\A h \in Handlers, id \in CampaignIds :
         ((\E d \in UpdateData : update_campaign_find(h, id, d))
            /\ Found(id) /\ campaigns[id].status \notin {DRAFT, SCHEDULED, PAUSED}) =>
              /\ response'.code = 400
              /\ UNCHANGED <<campaigns, req>>
    ]_vars

\* C10, amended: an update that finds the campaign in_progress or completed
\* is answered 400 and writes nothing; one that finds it draft, scheduled,
\* paused or failed is accepted and goes on to its update_one.
C10_UpdateBlockedInProgressCompleted ==
    [][\A h \in Handlers, id \in CampaignIds :
         ((\E d \in UpdateData : update_campaign_find(h, id, d)) /\ Found(id)) =>
              IF campaigns[id].status \in {IN_PROGRESS, COMPLETED}
              THEN /\ response'.code = 400
                   /\ UNCHANGED <<campaigns, req>>
              ELSE /\ req'[h].pc = "update_update"
                   /\ response' = NoResponse
    ]_vars

\* An update of a completed campaign has just been rejected.
C10_Witness ==
    /\ response = [code |-> 400, detail |-> "Cannot update campaign"]
    /\ \E id \in DOMAIN campaigns : campaigns[id].status = COMPLETED

\* C11: a campaign that is in_progress can be paused: an update asking for
\* status paused that finds the campaign in_progress is accepted and goes on
\* to its update_one.
C11_PauseInProgressAccepted ==
    [][\A h \in Handlers, id \in CampaignIds :
         ((\E d \in StatusUpdates : d.status = PAUSED /\ update_campaign_find(h, id, d))
            /\ Found(id) /\ campaigns[id].status = IN_PROGRESS) =>
              /\ req'[h].pc = "update_update"
              /\ req'[h].data.status = PAUSED
    ]_vars

\* C12: a campaign with an accepted, unfinished run is never removed: while
\* a send has passed its check or its background task has not stopped, the
\* campaign's record is in the store.
C12_RunningCampaignNeverRemoved ==
    /\ \A r \in Runs : run[r].pc \in Active => Found(run[r].campaign_id)
    /\ \A h \in Handlers :
         req[h].pc = "send_add_task" => Found(req[h].campaign_id)

\* Run r makes a pass of its loop.
Pass(r) ==
    /\ run[r].pc = "loop"
    /\ run[r].i <= Len(run[r].contact_ids)
    /\ run'[r] # run[r]

\* C13: a pass over a reference whose contact is not in the store adds one
\* to failed_count, calls nothing after the lookup (no render_template, no
\* generate_email, no send_email), writes no log row, and leaves the run in
\* its loop at the next reference.
C13_MissingContactSkipped ==
    [][\A r \in Runs :
         (Pass(r) /\ run[r].contact_ids[run[r].i] \notin DOMAIN contacts) =>
              /\ run'[r] = [run[r] EXCEPT !.failed_count = @ + 1, !.i = @ + 1]
              /\ calls'.ops = <<"find_one">>
              /\ calls'.send = NoSend
              /\ email_logs' = email_logs
    ]_vars

\* A run has skipped its first reference, whose contact was deleted, and
\* has sent to the second: one failure, one email sent, one log row, of the
\* second contact.
C13_Witness ==
    \E r \in Runs :
        /\ run[r].pc = "loop"
        /\ run[r].i = 3
        /\ run[r].contact_ids[1] \notin DOMAIN contacts
        /\ run[r].failed_count = 1
        /\ run[r].sent_count = 1
        /\ Len(email_logs) = 1
        /\ email_logs[1].contact_id = run[r].contact_ids[2]

\* C14: a pass in which generate_email raises adds one to failed_count,
\* calls neither render_template nor send_email, writes no log row, and
\* leaves the run in its loop at the next reference.
C14_GenerationErrorSkipped ==
    [][\A r \in Runs :
         (Pass(r) /\ calls'.generated = "raised") =>
              /\ run[r].use_llm
              /\ run'[r] = [run[r] EXCEPT !.failed_count = @ + 1, !.i = @ + 1]
              /\ calls'.ops = <<"find_one", "generate_email">>
              /\ calls'.send = NoSend
              /\ email_logs' = email_logs
    ]_vars

\* A run over three references has sent to the first, and the generation
\* for the second has just raised: one email sent, one failure, one log row
\* (of the first contact), and the run is in its loop at the third reference.
C14_Witness ==
    \E r \in Runs :
        /\ run[r].pc = "loop"
        /\ run[r].use_llm
        /\ Len(run[r].contact_ids) = 3
        /\ run[r].i = 3
        /\ calls.generated = "raised"
        /\ run[r].sent_count = 1
        /\ run[r].failed_count = 1
        /\ Len(email_logs) = 1
        /\ email_logs[1].contact_id = run[r].contact_ids[1]

\* Run r makes a pass of its loop in which send_email is called.
Attempt(r) ==
    /\ Pass(r)
    /\ calls'.ops # <<>>
    /\ calls'.ops[Len(calls'.ops)] = "send_email"

\* C15: every send attempt writes a log row and counts its result: a
\* transport success adds one to sent_count and its row has status sent, a
\* sent_at and no error message; a transport failure adds one to failed_count
\* and its row has status failed, the error message and no sent_at.  Hence in
\* every stored row sent_at is set exactly when the status is sent, and an
\* error message is set only when the status is failed.
C15_SendResultLogged ==
    /\ [][\A r \in Runs :
            Attempt(r) =>
               LET row == email_logs'[Len(email_logs')]
               IN  /\ Len(email_logs') = Len(email_logs) + 1
                   /\ row.contact_id = calls'.send.contact_id
                   /\ IF calls'.send.smtp = SMTP_OK
                      THEN /\ run'[r].sent_count = run[r].sent_count + 1
                           /\ run'[r].failed_count = run[r].failed_count
                           /\ row.status = EMAIL_SENT
                           /\ row.sent_at # NoTime
                           /\ row.error_message = NoError
                      ELSE /\ run'[r].failed_count = run[r].failed_count + 1
                           /\ run'[r].sent_count = run[r].sent_count
                           /\ row.status = EMAIL_FAILED
                           /\ row.error_message = ErrorMsg(calls'.send.smtp)
                           /\ row.sent_at = NoTime
       ]_vars
    /\ [](\A k \in DOMAIN email_logs :
            /\ email_logs[k].sent_at # NoTime <=> email_logs[k].status = EMAIL_SENT
            /\ email_logs[k].error_message # NoError => email_logs[k].status = EMAIL_FAILED)

\* C16: every send attempt of a run appends exactly one row to the log
\* collection, whatever the transport and the log insert do, and nothing else
\* in a run appends a row.
C16_OneRowPerAttempt ==
    [][\A r \in Runs :
         Pass(r) =>
            IF Attempt(r)
            THEN Len(email_logs') = Len(email_logs) + 1
            ELSE email_logs' = email_logs
    ]_vars

\* C17: a send_email call of a real transport never raises: when a step of
\* the SMTP session fails, the backend's sender returns (False, message) and
\* the command line's returns False, and the campaign run counts the failure
\* from the returned value.
C17_RealSendNeverRaises ==
    [][(/\ calls'.ops # <<>>
        /\ calls'.ops[Len(calls'.ops)] \in {"send_email", "EmailSender.send_email"}
        /\ ~calls'.send.dry_run) =>
           /\ ~calls'.send.raised
           /\ calls'.send.success = (calls'.send.smtp = SMTP_OK)
           /\ \A r \in Runs :
                Attempt(r) =>
                   /\ run'[r] = CountResult(run[r], calls'.send.smtp = SMTP_OK)
                   /\ calls'.send.error =
                        IF calls'.send.smtp = SMTP_OK THEN NoError
                        ELSE ErrorMsg(calls'.send.smtp)
    ]_vars

\* The login of the backend sender's SMTP session has just failed: the call
\* returned (False, message), the run counted one failure and is in its loop,
\* and the failure is logged.
C17_Witness ==
    /\ calls.ops = <<"find_one", "render_template", "send_email">>
    /\ calls.send.smtp = "login"
    /\ ~calls.send.raised
    /\ ~calls.send.success
    /\ calls.send.error = ErrorMsg("login")
    /\ \E r \in Runs :
         /\ run[r].pc = "loop"
         /\ run[r].failed_count = 1
         /\ ~run[r].dry_run
    /\ Len(email_logs) = 1
    /\ email_logs[1].status = EMAIL_FAILED

\* C18: in a dry run every send_email call opens no SMTP session and
\* reports success, and every recipient the run has an email for gets exactly
\* one log row, with status sent.
C18_DryRunOneSentRowPerRecipient ==
    [][\A r \in Runs :
         (Attempt(r) /\ run[r].dry_run) =>
              /\ ~calls'.send.network
              /\ calls'.send.success
              /\ ~calls'.send.raised
              /\ run'[r].sent_count = run[r].sent_count + 1
              /\ Len(email_logs') = Len(email_logs) + 1
              /\ email_logs'[Len(email_logs')].status = EMAIL_SENT
              /\ email_logs'[Len(email_logs')].contact_id = run[r].contact_ids[run[r].i]
    ]_vars

\* C19: a send of a dry run leaves the log collection and the run's counters
\* exactly as the real sender would have left them, had it been called in the
\* same state with the same arguments and its SMTP session gone through:
\* same row (contact, subject, body, status), same count.
C19_DryRunLogsAsRealRun ==
    [][\A r \in Runs :
         (Attempt(r) /\ run[r].dry_run) =>
              LET real == AsyncSendEmail(email_logs, run[r].campaign_id,
                                         calls'.send.contact_id, calls'.send.subject,
                                         calls'.send.body, SMTP_OK, calls'.send.insert_ok, now)
              IN  /\ email_logs' = real.logs
                  /\ run'[r] = CountResult(run[r], real.success)
    ]_vars

\* C20: in every state every stored campaign has total_emails equal to the
\* number of entries of its contact_ids.
C20_TotalIsContactCount ==
    \A id \in DOMAIN campaigns :
        campaigns[id].total_emails = Len(campaigns[id].contact_ids)

\* An update has just been answered 200 and the campaign, created with at
\* most one contact, has two: the update changed contact_ids.
C20_Witness ==
    /\ response = [code |-> 200, detail |-> "updated"]
    /\ \E id \in DOMAIN campaigns :
         /\ Len(campaigns[id].contact_ids) = 2
         /\ campaigns[id].total_emails = 2

\* C21: after any create_template or update_template the stored placeholder
\* list of a template is the set of names extracted from its stored content;
\* a list the caller supplies, on create or on update, is never stored as
\* given.
C21_PlaceholdersExtractedFromContent ==
    template.present => template.placeholders = extract_placeholders(template.content)

\* C22: no two stored contacts have the same email, after any interleaving
\* of create_contact, update_contact and bulk_import_contacts.
C22_EmailsUnique ==
    \A c \in DOMAIN contacts, d \in DOMAIN contacts :
        c # d => contacts[c].email # contacts[d].email

\* The rendering the contract describes, from index i: each "$name" and
\* "${name}" is replaced by V[name] when name is a key of V, and every other
\* character, those of a placeholder whose name is not a key included,
\* stays as it is.
RECURSIVE Substituted(_, _, _)
Substituted(T, V, i) ==
    IF i > Len(T) THEN <<>>
    ELSE IF T[i] = "$" /\ i + 1 <= Len(T) /\ T[i + 1] \in IdentStart
         THEN LET e == IdentEnd(T, i + 2)
                  name == SubSeq(T, i + 1, e - 1)
              IN  (IF name \in DOMAIN V THEN V[name] ELSE SubSeq(T, i, e - 1))
                  \o Substituted(T, V, e)
    ELSE IF /\ T[i] = "$" /\ i + 2 <= Len(T) /\ T[i + 1] = "{" /\ T[i + 2] \in IdentStart
            /\ IdentEnd(T, i + 3) <= Len(T) /\ T[IdentEnd(T, i + 3)] = "}"
         THEN LET e == IdentEnd(T, i + 3)
                  name == SubSeq(T, i + 2, e - 1)
              IN  (IF name \in DOMAIN V THEN V[name] ELSE SubSeq(T, i, e))
                  \o Substituted(T, V, e + 1)
    ELSE <<T[i]>> \o Substituted(T, V, i + 1)

\* C23: for every text and mapping, rendering replaces each $name and
\* ${name} whose name is a key of the mapping by its value and leaves every
\* other placeholder as it is; the greeting renders to
\* "Hi Ana, from $company"; and rendering the result again with the same
\* mapping changes nothing.
C23_RenderSubstitutesPresentKeys ==
    /\ Len(rendering.results) >= 1 =>
          rendering.results[1] =
             Substituted(rendering.template_content, rendering.variables, 1)
    /\ (Len(rendering.results) >= 1 /\ rendering.template_content = GreetingText) =>
          rendering.results[1] =
             <<"H", "i", " ", "A", "n", "a", ",", " ",
               "f", "r", "o", "m", " ", "$", "c", "o", "m", "p", "a", "n", "y">>
    /\ Len(rendering.results) >= 2 => rendering.results[2] = rendering.results[1]

\* Whether a text has no "$$".
NoEscape(T) == \A i \in 1..(Len(T) - 1) : ~(T[i] = "$" /\ T[i + 1] = "$")

\* C23 as it holds: for every text without "$$" and every mapping,
\* rendering replaces each $name and ${name} whose name is a key of the
\* mapping by its value and leaves every other character as it is; the
\* greeting renders to "Hi Ana, from $company"; and rendering a result that
\* has no "$$" and no placeholder naming a key changes nothing.
C23_RenderSubstitutesUnescaped ==
    /\ (Len(rendering.results) >= 1 /\ NoEscape(rendering.template_content)) =>
          rendering.results[1] =
             Substituted(rendering.template_content, rendering.variables, 1)
    /\ (Len(rendering.results) >= 1 /\ rendering.template_content = GreetingText) =>
          rendering.results[1] =
             <<"H", "i", " ", "A", "n", "a", ",", " ",
               "f", "r", "o", "m", " ", "$", "c", "o", "m", "p", "a", "n", "y">>
    /\ (/\ Len(rendering.results) >= 2
        /\ NoEscape(rendering.results[1])
        /\ Substituted(rendering.results[1], rendering.variables, 1) = rendering.results[1]) =>
          rendering.results[2] = rendering.results[1]

\* "$a$b" rendered twice with a mapping that has a and lacks b: the first
\* rendering filled in a and left $b, the second left it again.
C23_Witness ==
    /\ rendering.template_content = <<"$", "a", "$", "b">>
    /\ DOMAIN rendering.variables = {<<"a">>}
    /\ Len(rendering.results) = 2
    /\ rendering.results[1] = rendering.variables[<<"a">>] \o <<"$", "b">>
    /\ rendering.results[2] = rendering.results[1]

\* C24: a run takes the references of contact_ids one at a time and in
\* order: a pass handles the reference at the run's index, writes at most
\* one row, which is that reference's, and leaves the index at the next
\* reference; so the rows of a run appear in the order of contact_ids.
C24_ReferencesInOrder ==
    /\ [][\A r \in Runs :
            Pass(r) =>
               /\ run'[r].pc = "loop"
               /\ run'[r].i = run[r].i + 1
               /\ run'[r].contact_ids = run[r].contact_ids
               /\ \/ email_logs' = email_logs
                  \/ /\ Len(email_logs') = Len(email_logs) + 1
                     /\ SubSeq(email_logs', 1, Len(email_logs)) = email_logs
                     /\ email_logs'[Len(email_logs')].contact_id =
                           run[r].contact_ids[run[r].i]
       ]_vars
    /\ [](next_run <= 1 =>
            \A j \in 1..Len(email_logs), k \in 1..Len(email_logs) :
                j < k => email_logs[j].contact_id < email_logs[k].contact_id)

\* The only run of a campaign of three contacts wrote their three rows.
C24_Witness ==
    /\ next_run = 1
    /\ run[1].pc = "done_completed"
    /\ [j \in 1..Len(email_logs) |-> email_logs[j].contact_id] = <<1, 2, 3>>

\* C25: an accepted send writes its campaign record exactly twice: first
\* send_campaign, with in_progress and started_at, before the run is added;
\* last the run, in the step in which it stops, with the terminal status
\* (and the counters when that is completed); no other step of the run
\* changes the stored record.
C25_CampaignWrittenTwice ==
    [][/\ next_run' = next_run + 1 =>
            LET c == campaigns[run'[next_run'].campaign_id]
            IN  /\ c.status = IN_PROGRESS
                /\ c.started_at # NoTime
                /\ campaigns' = campaigns
       /\ \A r \in Runs :
            (run[r].pc \in Active /\ run'[r] # run[r]) =>
               IF run'[r].pc \in Stopped
               THEN LET c == campaigns'[run[r].campaign_id]
                    IN  /\ campaigns' # campaigns
                        /\ c.status \in {COMPLETED, FAILED}
                        /\ c.status = COMPLETED =>
                              /\ c.sent_count = run[r].sent_count
                              /\ c.failed_count = run[r].failed_count
               ELSE campaigns' = campaigns
    ]_vars

\* C26: every subject and body a run sends and logs comes from the template
\* as the run read it at its start: the content each pass renders or hands
\* to the generator and the subject it sends and logs are those of that
\* snapshot, whatever the stored template has become; the snapshot does not
\* change during the loop, and rows already written are not changed.
C26_RunUsesTemplateSnapshot ==
    [][/\ \A r \in Runs :
            /\ (run[r].pc = "find_template" /\ run'[r].pc = "loop") =>
                  /\ run'[r].subject = template.subject
                  /\ run'[r].content = template.content
            /\ (run[r].pc = "loop" /\ run'[r].pc = "loop") =>
                  /\ run'[r].subject = run[r].subject
                  /\ run'[r].content = run[r].content
            /\ (Pass(r) /\ \E k \in DOMAIN calls'.ops :
                              calls'.ops[k] \in {"render_template", "generate_email"}) =>
                  calls'.content = run[r].content
            /\ Attempt(r) =>
                  /\ calls'.send.subject = run[r].subject
                  /\ Len(email_logs') > Len(email_logs) =>
                        email_logs'[Len(email_logs')].subject = run[r].subject
       /\ Len(email_logs') >= Len(email_logs)
       /\ SubSeq(email_logs', 1, Len(email_logs)) = email_logs
    ]_vars

\* A pass has sent and logged the subject and content of its run's snapshot
\* after the stored template was given another subject and another content.
C26_Witness ==
    \E r \in Runs :
        /\ run[r].pc = "loop"
        /\ calls.ops # <<>>
        /\ calls.ops[Len(calls.ops)] = "send_email"
        /\ template.present
        /\ template.subject # run[r].subject
        /\ template.content # run[r].content
        /\ calls.content = run[r].content
        /\ calls.send.subject = run[r].subject
        /\ email_logs # <<>>
        /\ email_logs[Len(email_logs)].subject = run[r].subject

\* A pass of the command line's loop that called send_email.
CliAttempt ==
    /\ cli.pc = "loop"
    /\ cli'.i = cli.i + 1
    /\ calls'.ops # <<>>
    /\ calls'.ops[Len(calls'.ops)] = "send_email"

\* C27: in a bulk run through a real transport, by the command line or by
\* the backend's task, no send is attempted unless the connection test of
\* the run's sender succeeded before; a failed test ends the run before its
\* first send.
C27_NoSendWithoutConnectionCheck ==
    [][/\ (CliAttempt /\ ~cli.dry_run) => cli.tested
       /\ \A r \in Runs : (Attempt(r) /\ ~run[r].dry_run) => run[r].tested
    ]_vars

\* C28: under any interleaving of update_campaign with send_campaign and
\* the run, a completed campaign has
\* sent_count + failed_count = total_emails = len(contact_ids).
C28_CompletedCountersMatchTotal ==
    \A id \in DOMAIN campaigns :
        campaigns[id].status = COMPLETED =>
            /\ campaigns[id].sent_count + campaigns[id].failed_count
                  = campaigns[id].total_emails
            /\ campaigns[id].total_emails = Len(campaigns[id].contact_ids)

\* C29: whenever a stored campaign is in_progress, a background run for it
\* is executing or scheduled, or the send that wrote the status is about to
\* add it; no sequence of requests leaves a campaign in_progress with no
\* run.
C29_InProgressHasRun ==
    \A id \in DOMAIN campaigns :
        campaigns[id].status = IN_PROGRESS =>
            \/ \E r \in Runs : run[r].campaign_id = id /\ run[r].pc \in Active
            \/ \E h \in Handlers : req[h].pc = "send_add_task" /\ req[h].campaign_id = id

\* C30: send_emails returns (successful, failed) whose sum is the number of
\* recipients processed, which is min(limit, rows with an email) for a limit
\* of 0 or more and every row with an email without a limit; every pass of
\* its loop adds one to exactly one of the two counters and goes on to the
\* next recipient, whatever generation, rendering and sending do.
C30_CountsSumToProcessed ==
    [][(cli.pc = "loop" /\ cli' # cli) =>
          IF cli.i <= Len(cli.recipients)
          THEN /\ cli'.pc = "loop"
               /\ cli'.i = cli.i + 1
               /\ \/ /\ cli'.successful = cli.successful + 1
                     /\ cli'.failed = cli.failed
                  \/ /\ cli'.failed = cli.failed + 1
                     /\ cli'.successful = cli.successful
          ELSE LET n == Len(read_emails(cli.rows))
                   processed == IF cli.limit.given /\ cli.limit.value < n
                                THEN cli.limit.value
                                ELSE n
               IN  /\ cli'.successful = cli.successful
                   /\ cli'.failed = cli.failed
                   /\ cli.successful + cli.failed = processed
    ]_vars
====
